---- MODULE Spec2Model ----
(***************************************************************************)
(* Model of the Ribbit Network dashboard (src/app.py).                     *)
(*                                                                         *)
(*  - the map viewport estimator                                           *)
(*    get_plotting_zoom_level_and_center_coordinates_from_lonlat_tuples,   *)
(*    a pure function, modelled over exact rationals (the idealisation of  *)
(*    the binary64 arithmetic of numpy/pandas) extended with NaN;          *)
(*  - the Dash application: serve_layout and the server-side callbacks     *)
(*    update_map, update_graphs and export_data, which share the module    *)
(*    global sensor_data between all browser sessions of the process.      *)
(***************************************************************************)
EXTENDS Integers, Sequences, FiniteSets, TLC

(***************************************************************************)
(* Arbitrary-precision naturals: little-endian digit sequences, no leading *)
(* zero digit; <<>> is zero.  They carry the exact values of the float     *)
(* expressions of the estimator (5 ** -10 has denominator 9765625, and     *)
(* products of such denominators do not fit a machine integer).            *)
(***************************************************************************)
Base == 10 ^ 4

RECURSIVE NNorm(_)
NNorm(a) ==
    IF a = <<>> THEN <<>>
    ELSE IF a[Len(a)] = 0 THEN NNorm(SubSeq(a, 1, Len(a) - 1))
    ELSE a

RECURSIVE NFromInt(_)
NFromInt(i) ==
    IF i = 0 THEN <<>> ELSE <<i % Base>> \o NFromInt(i \div Base)

Digit(a, i) == IF i <= Len(a) THEN a[i] ELSE 0

RECURSIVE NAddC(_, _, _, _)
NAddC(a, b, i, c) ==
    IF i > Len(a) /\ i > Len(b)
    THEN (IF c = 0 THEN <<>> ELSE <<c>>)
    ELSE LET s == Digit(a, i) + Digit(b, i) + c
         IN  <<s % Base>> \o NAddC(a, b, i + 1, s \div Base)

NAdd(a, b) == NNorm(NAddC(a, b, 1, 0))

RECURSIVE NCmpAt(_, _, _)
NCmpAt(a, b, i) ==
    IF i = 0 THEN 0
    ELSE IF a[i] > b[i] THEN 1
    ELSE IF a[i] < b[i] THEN -1
    ELSE NCmpAt(a, b, i - 1)

\* -1, 0 or 1 as a < b, a = b, a > b
NCmp(a, b) ==
    IF Len(a) > Len(b) THEN 1
    ELSE IF Len(a) < Len(b) THEN -1
    ELSE NCmpAt(a, b, Len(a))

RECURSIVE NSubB(_, _, _, _)
NSubB(a, b, i, br) ==
    IF i > Len(a) THEN <<>>
    ELSE LET d == a[i] - Digit(b, i) - br
         IN  IF d < 0 THEN <<d + Base>> \o NSubB(a, b, i + 1, 1)
             ELSE <<d>> \o NSubB(a, b, i + 1, 0)

\* a - b for a >= b
NSub(a, b) == NNorm(NSubB(a, b, 1, 0))

RECURSIVE NMulD(_, _, _, _)
NMulD(a, d, i, c) ==
    IF i > Len(a)
    THEN (IF c = 0 THEN <<>> ELSE <<c>>)
    ELSE LET p == a[i] * d + c
         IN  <<p % Base>> \o NMulD(a, d, i + 1, p \div Base)

RECURSIVE NMulAt(_, _, _)
NMulAt(a, b, j) ==
    IF j > Len(b) THEN <<>>
    ELSE NAddC(NMulD(a, b[j], 1, 0), <<0>> \o NMulAt(a, b, j + 1), 1, 0)

NMul(a, b) == NNorm(NMulAt(a, b, 1))

RECURSIVE NPow(_, _)
NPow(a, e) == IF e = 0 THEN <<1>> ELSE NMul(a, NPow(a, e - 1))

(***************************************************************************)
(* Floats: exact rationals [nan, neg, num, den] (sign, numerator and       *)
(* denominator; den is never zero) together with NaN.  Values are not      *)
(* reduced, so they are compared with REq, RLt and RLe, never with =.      *)
(***************************************************************************)
NaN == [nan |-> TRUE, neg |-> FALSE, num |-> <<>>, den |-> <<>>]

IsNaN(x) == x.nan

Rat(neg, num, den) ==
    [nan |-> FALSE, neg |-> neg /\ num # <<>>, num |-> num, den |-> den]

\* the number i / d, for integers i and d > 0
Frac(i, d) ==
    Rat(i < 0, NFromInt(IF i < 0 THEN -i ELSE i), NFromInt(d))

Int2Rat(i) == Frac(i, 1)

RNeg(x) == Rat(~x.neg, x.num, x.den)

\* |x| compared with |y|: -1, 0 or 1
AbsCmp(x, y) ==
    IF x.den = y.den THEN NCmp(x.num, y.num)
    ELSE NCmp(NMul(x.num, y.den), NMul(y.num, x.den))

\* -1, 0 or 1 as x < y, x = y, x > y, for numbers that are not NaN
RCmp(x, y) ==
    IF x.neg /\ ~y.neg THEN -1
    ELSE IF ~x.neg /\ y.neg THEN 1
    ELSE IF x.neg THEN AbsCmp(y, x)
    ELSE AbsCmp(x, y)

RLt(x, y) == RCmp(x, y) < 0
REq(x, y) == RCmp(x, y) = 0
RLe(x, y) == RCmp(x, y) <= 0

RAdd(x, y) ==
    LET same == x.den = y.den
        a == IF same THEN x.num ELSE NMul(x.num, y.den)
        b == IF same THEN y.num ELSE NMul(y.num, x.den)
        d == IF same THEN x.den ELSE NMul(x.den, y.den)
    IN  IF x.neg = y.neg THEN Rat(x.neg, NAdd(a, b), d)
        ELSE IF NCmp(a, b) >= 0 THEN Rat(x.neg, NSub(a, b), d)
        ELSE Rat(y.neg, NSub(b, a), d)

RSub(x, y) == RAdd(x, RNeg(y))

RMul(x, y) == Rat(x.neg # y.neg, NMul(x.num, y.num), NMul(x.den, y.den))

\* x / y for y # 0
RDiv(x, y) == Rat(x.neg # y.neg, NMul(x.num, y.den), NMul(x.den, y.num))

\* float arithmetic: NaN propagates through every operation
FSub(x, y) == IF IsNaN(x) \/ IsNaN(y) THEN NaN ELSE RSub(x, y)
FMul(x, y) == IF IsNaN(x) \/ IsNaN(y) THEN NaN ELSE RMul(x, y)

\* Python's b ** e for integers b >= 1 and e: a float when e is negative
PyPow(b, e) ==
    IF e < 0 THEN Rat(FALSE, <<1>>, NPow(NFromInt(b), -e))
    ELSE Rat(FALSE, NPow(NFromInt(b), e), <<1>>)

(***************************************************************************)
(* Arguments of the estimator: None, or a pandas Series of floats.         *)
(***************************************************************************)
None == [none |-> TRUE, vals |-> <<>>]

Series(vals) == [none |-> FALSE, vals |-> vals]

RECURSIVE MaxOf(_, _)
MaxOf(v, i) ==
    IF i = 1 THEN v[1]
    ELSE LET m == MaxOf(v, i - 1) IN IF RLt(m, v[i]) THEN v[i] ELSE m

RECURSIVE MinOf(_, _)
MinOf(v, i) ==
    IF i = 1 THEN v[1]
    ELSE LET m == MinOf(v, i - 1) IN IF RLt(v[i], m) THEN v[i] ELSE m

RECURSIVE SumOf(_, _)
SumOf(v, i) == IF i = 0 THEN Int2Rat(0) ELSE RAdd(SumOf(v, i - 1), v[i])

\* Series.max(), Series.min(), np.mean(Series): NaN on an empty Series
SeriesMax(s) == IF Len(s.vals) = 0 THEN NaN ELSE MaxOf(s.vals, Len(s.vals))
SeriesMin(s) == IF Len(s.vals) = 0 THEN NaN ELSE MinOf(s.vals, Len(s.vals))
\* the midpoint of the range instead of the mean
Mean_midpoint(s) ==
    IF Len(s.vals) = 0 THEN NaN
    ELSE RDiv(RAdd(SeriesMax(s), SeriesMin(s)), Int2Rat(2))

Mean(s) ==
    IF Len(s.vals) = 0 THEN NaN
    ELSE RDiv(SumOf(s.vals, Len(s.vals)), Int2Rat(Len(s.vals)))

(***************************************************************************)
(* np.interp(x, xp, fp) for a scalar x: NaN stays NaN; x beyond the last   *)
(* (before the first) x-point gives the last (first) y; otherwise, with j  *)
(* the largest index such that xp[j] <= x, the result is fp[j] when j is   *)
(* the last index or xp[j] = x, and the linear interpolation between the   *)
(* points j and j + 1 otherwise.                                           *)
(***************************************************************************)
RECURSIVE SearchFrom(_, _, _)
SearchFrom(x, pts, j) ==
    IF j = 1 \/ RLe(pts[j], x) THEN j ELSE SearchFrom(x, pts, j - 1)

binary_search(x, pts) == SearchFrom(x, pts, Len(pts))

\* the slope taken with the wrong sign
Interpolate_rising(x, pts, vals, j) ==
    LET slope == RDiv(RSub(vals[j], vals[j + 1]), RSub(pts[j + 1], pts[j]))
    IN  RAdd(RMul(slope, RSub(x, pts[j])), vals[j])

Interpolate(x, pts, vals, j) ==
    LET slope == RDiv(RSub(vals[j + 1], vals[j]), RSub(pts[j + 1], pts[j]))
    IN  RAdd(RMul(slope, RSub(x, pts[j])), vals[j])

interp(x, pts, vals) ==
    IF IsNaN(x) THEN NaN
    ELSE IF RLt(pts[Len(pts)], x) THEN vals[Len(pts)]
    ELSE IF RLt(x, pts[1]) THEN vals[1]
    ELSE LET j == binary_search(x, pts)
         IN  IF j = Len(pts) \/ REq(pts[j], x) THEN vals[j]
             ELSE Interpolate(x, pts, vals, j)

\* the anchors of the area -> zoom curve
xp ==
    << Int2Rat(0), PyPow(5, -10), PyPow(4, -10), PyPow(3, -10),
       PyPow(2, -10), PyPow(1, -10), PyPow(1, -5) >>

\* the zoom levels listed in ascending order
fp_reversed ==
    << Int2Rat(4), Int2Rat(6), Int2Rat(11), Int2Rat(13),
       Int2Rat(14), Int2Rat(15), Int2Rat(20) >>

\* another zoom level for the largest areas
fp_last5 ==
    << Int2Rat(20), Int2Rat(15), Int2Rat(14), Int2Rat(13),
       Int2Rat(11), Int2Rat(6), Int2Rat(5) >>

fp ==
    << Int2Rat(20), Int2Rat(15), Int2Rat(14), Int2Rat(13),
       Int2Rat(11), Int2Rat(6), Int2Rat(4) >>

\* the default returned for missing or mismatched arguments: 0, (0, 0)
DefaultResult == << Int2Rat(0), << Int2Rat(0), Int2Rat(0) >> >>

b_box(longitudes_, latitudes_) ==
    [ height     |-> FSub(SeriesMax(latitudes_), SeriesMin(latitudes_)),
      width      |-> FSub(SeriesMax(longitudes_), SeriesMin(longitudes_)),
      center_lat |-> Mean(latitudes_),
      center_lon |-> Mean(longitudes_) ]

area(box) == FMul(box.height, box.width)

\* the estimator without the comparison of the two lengths
estimator_no_length_check(longitudes_, latitudes_) ==
    IF latitudes_ = None \/ longitudes_ = None
    THEN DefaultResult
    ELSE LET box == b_box(longitudes_, latitudes_)
         IN  << interp(area(box), xp, fp), box.center_lat, box.center_lon >>

get_plotting_zoom_level_and_center_coordinates_from_lonlat_tuples(longitudes_, latitudes_) ==
    IF \/ latitudes_ = None
       \/ longitudes_ = None
       \/ Len(latitudes_.vals) # Len(longitudes_.vals)
    THEN DefaultResult
    ELSE LET box == b_box(longitudes_, latitudes_)
         IN  << interp(area(box), xp, fp), box.center_lat, box.center_lon >>


(***************************************************************************)
(* State.                                                                  *)
(*   longitudes, latitudes, result, pc, zoom, b_box_lat, b_box_lon:        *)
(*       one call of the estimator and the destructuring of its result     *)
(*       into three names, as serve_layout does;                           *)
(*   longitudesB, latitudesB, resultB: a second call, to compare two       *)
(*       inputs;                                                           *)
(*   db: the rows db.get_map_data() returns now;                           *)
(*   sensor_data: the module global shared by all sessions;                *)
(*   map, click_feature, duration, n_clicks: per browser session, the      *)
(*       zoom and center of the map component and the properties the       *)
(*       session sends with its callbacks;                                 *)
(*   last: the last handler the server ran, its inputs and what it         *)
(*       returned; hostSeen: whether update_graphs ever received a         *)
(*       click_feature carrying a 'host' property.                         *)
(***************************************************************************)
VARIABLES longitudes, latitudes, result, pc, zoom, b_box_lat, b_box_lon,
          longitudesB, latitudesB, resultB,
          db, sensor_data, map, click_feature, duration, n_clicks, last,
          hostSeen

estVars == << longitudes, latitudes, result, pc, zoom, b_box_lat, b_box_lon >>
pairVars == << longitudesB, latitudesB, resultB >>
appVars ==
    << db, sensor_data, map, click_feature, duration, n_clicks, last, hostSeen >>
vars == << estVars, pairVars, appVars >>

\* longest argument of the single-call specification
MaxLen == 3

\* most points of an input of the two-call specification
MaxPairLen == 2

\* coordinate values of the single-call specification, in degrees
LatVals == { Int2Rat(-3), Int2Rat(0), Int2Rat(9) }
LonVals == { Int2Rat(0), Frac(1, 8), Int2Rat(10) }

\* points (lat, lon) of the two-call specification, in 1/10000 degree; the
\* boxes they span have areas in every segment of the curve, and area 1
Points ==
    { <<-10, 0>>, <<-8, 3>>, <<0, 5>>, <<10, 100>>, <<9990, 10000>> }

Deg(k) == Frac(k, 10000)

SeqsUpTo(V, n) == UNION { [1..k -> V] : k \in 0..n }

Args(V) == { None } \cup { Series(v) : v \in SeqsUpTo(V, MaxLen) }

PointSeqs == { ps \in SeqsUpTo(Points, MaxPairLen) : Len(ps) >= 1 }

LatsOf(ps) == Series([i \in 1..Len(ps) |-> Deg(ps[i][1])])
LonsOf(ps) == Series([i \in 1..Len(ps) |-> Deg(ps[i][2])])

NoResult == <<>>
Unbound == [unbound |-> TRUE]

EstIdle ==
    /\ result = NoResult
    /\ pc = "call"
    /\ zoom = Unbound /\ b_box_lat = Unbound /\ b_box_lon = Unbound

PairIdle == longitudesB = None /\ latitudesB = None /\ resultB = NoResult

(***************************************************************************)
(* The Dash application.                                                   *)
(***************************************************************************)
Sessions == { "A", "B" }

Hosts == { "frog1", "frog2" }

\* values of the 'duration' dropdown (two of its six options); '24h' is the
\* value of a fresh layout
Durations == { "24h", "7d" }

\* click_feature of the GeoJSON layer: None, a feature without a 'host'
\* property (a cluster marker), or the feature of a sensor
Features == { "None", "cluster" } \cup Hosts

\* click_feature.get('properties', {}).get('host', None)
HostOf(feature) == IF feature \in Hosts THEN feature ELSE "None"

\* what db.get_map_data() may return: rows (lat, lon) in degrees
MapData == { << <<47, -122>> >>, << <<47, -122>>, <<52, 13>> >> }

\* the columns df['lat'] and df['lon'] of the map data
Column(rows, c) == Series([i \in 1..Len(rows) |-> Int2Rat(rows[i][c])])

\* a frame of sensor readings: the sensor and duration it was queried for,
\* and whether it holds no rows
Frame(host, dur, empty) == [host |-> host, duration |-> dur, empty |-> empty]

\* sensor_data at import: pd.DataFrame(columns=[...]), no rows
InitialFrame == Frame("None", "None", TRUE)

NoMap == [loaded |-> FALSE]
NoDownload == [download |-> FALSE]
NoCall == [op |-> "none", session |-> "none", n_clicks |-> "None",
           est_calls |-> 0, ret |-> NoDownload]

AppStart(rows) ==
    /\ db = rows
    /\ sensor_data = InitialFrame
    /\ map = [s \in Sessions |-> NoMap]
    /\ click_feature = [s \in Sessions |-> "None"]
    /\ duration = [s \in Sessions |-> "24h"]
    /\ n_clicks = [s \in Sessions |-> "None"]
    /\ last = NoCall
    /\ hostSeen = FALSE

\* the call of the estimator on (longitudes, latitudes)
Estimate ==
    /\ pc = "call"
    /\ result' = get_plotting_zoom_level_and_center_coordinates_from_lonlat_tuples(longitudes, latitudes)
    /\ pc' = "returned"
    /\ UNCHANGED << longitudes, latitudes, zoom, b_box_lat, b_box_lon, pairVars,
                    appVars >>

\* zoom, b_box_lat, b_box_lon = <result>: Python raises ValueError when the
\* tuple does not hold exactly three values
Unpack ==
    /\ pc = "returned"
    /\ IF Len(result) = 3
       THEN /\ zoom' = result[1]
            /\ b_box_lat' = result[2]
            /\ b_box_lon' = result[3]
            /\ pc' = "unpacked"
       ELSE /\ pc' = "ValueError"
            /\ UNCHANGED << zoom, b_box_lat, b_box_lon >>
    /\ UNCHANGED << longitudes, latitudes, result, pairVars, appVars >>

\* the call of the estimator on the second input
EstimateB ==
    /\ pc = "returned"
    /\ resultB' = get_plotting_zoom_level_and_center_coordinates_from_lonlat_tuples(longitudesB, latitudesB)
    /\ pc' = "returnedB"
    /\ UNCHANGED << longitudes, latitudes, result, zoom, b_box_lat, b_box_lon,
                    longitudesB, latitudesB, appVars >>

(***************************************************************************)
(* SpecEst: one call on any pair of arguments (None, or a Series of up to  *)
(* MaxLen values each), then the destructuring of the result.              *)
(***************************************************************************)
InitEst ==
    /\ latitudes \in Args(LatVals)
    /\ longitudes \in Args(LonVals)
    /\ EstIdle
    /\ PairIdle
    /\ AppStart(<<>>)

NextEst == Estimate \/ Unpack

SpecEst == InitEst /\ [][NextEst]_vars

(***************************************************************************)
(* SpecPair: two calls, on two point sets of 1..MaxPairLen points each.    *)
(***************************************************************************)
InitPair ==
    /\ \E psA \in PointSeqs, psB \in PointSeqs :
          /\ latitudes = LatsOf(psA) /\ longitudes = LonsOf(psA)
          /\ latitudesB = LatsOf(psB) /\ longitudesB = LonsOf(psB)
    /\ EstIdle
    /\ resultB = NoResult
    /\ AppStart(<<>>)

NextPair == Estimate \/ EstimateB

SpecPair == InitPair /\ [][NextPair]_vars

(***************************************************************************)
(* Spec: the server with its browser sessions.  Each handler runs as one   *)
(* step; the database contents change between steps.                       *)
(***************************************************************************)

\* the map properties serve_layout derives from the map data
ViewOf(rows) ==
    LET r == get_plotting_zoom_level_and_center_coordinates_from_lonlat_tuples(
                 Column(rows, 2), Column(rows, 1))
    IN  IF Len(r) = 3
        THEN [zoom |-> r[1], center |-> << r[2], r[3] >>]
        ELSE NoMap

\* a page load of session s: app.layout = serve_layout builds a fresh layout
serve_layout(s) ==
    /\ map' = [map EXCEPT ![s] = ViewOf(db)]
    /\ click_feature' = [click_feature EXCEPT ![s] = "None"]
    /\ duration' = [duration EXCEPT ![s] = "24h"]
    /\ n_clicks' = [n_clicks EXCEPT ![s] = "None"]
    /\ last' = [op |-> "serve_layout", session |-> s, n_clicks |-> "None",
                est_calls |-> 1, ret |-> map'[s]]
    /\ UNCHANGED << db, sensor_data, hostSeen, estVars, pairVars >>

\* a refresh that fits the map to the current rows again
update_map_refit(s) ==
    /\ map[s] # NoMap
    /\ map' = [map EXCEPT ![s] = ViewOf(db)]
    /\ last' = [op |-> "update_map", session |-> s, n_clicks |-> "None",
                est_calls |-> 1, ret |-> [geojson |-> db]]
    /\ UNCHANGED << db, sensor_data, click_feature, duration, n_clicks,
                    hostSeen, estVars, pairVars >>

\* the onload or interval callback of session s
update_map(s) ==
    /\ map[s] # NoMap
    /\ last' = [op |-> "update_map", session |-> s, n_clicks |-> "None",
                est_calls |-> 0, ret |-> [geojson |-> db]]
    /\ UNCHANGED << db, sensor_data, map, click_feature, duration, n_clicks,
                    hostSeen, estVars, pairVars >>

\* db.get_sensor_data(sensor, duration), renamed and converted: the sensor may
\* have no readings in the window
get_sensor_data(sensor, dur) == { Frame(sensor, dur, e) : e \in BOOLEAN }

\* the graphs callback without the test that the feature names a sensor
update_graphs_no_host_check(s, dur, feature) ==
    /\ map[s] # NoMap
    /\ click_feature[s] # "None" => feature # "None"
    /\ duration' = [duration EXCEPT ![s] = dur]
    /\ click_feature' = [click_feature EXCEPT ![s] = feature]
    /\ IF feature # "None"
       THEN sensor_data' \in get_sensor_data(HostOf(feature), dur)
       ELSE sensor_data' = sensor_data
    /\ hostSeen' = (hostSeen \/ feature \in Hosts)
    /\ last' = [op |-> "update_graphs", session |-> s, n_clicks |-> "None",
                est_calls |-> 0, ret |-> [figures |-> sensor_data']]
    /\ UNCHANGED << db, map, n_clicks, estVars, pairVars >>

\* the graphs callback of session s, fired by a change of duration, a click
\* on a feature or the interval, with the session's current property values
update_graphs(s, dur, feature) ==
    /\ map[s] # NoMap
    /\ click_feature[s] # "None" => feature # "None"
    /\ duration' = [duration EXCEPT ![s] = dur]
    /\ click_feature' = [click_feature EXCEPT ![s] = feature]
    /\ IF feature # "None" /\ HostOf(feature) # "None"
       THEN sensor_data' \in get_sensor_data(HostOf(feature), dur)
       ELSE sensor_data' = sensor_data
    /\ hostSeen' = (hostSeen \/ feature \in Hosts)
    /\ last' = [op |-> "update_graphs", session |-> s, n_clicks |-> "None",
                est_calls |-> 0, ret |-> [figures |-> sensor_data']]
    /\ UNCHANGED << db, map, n_clicks, estVars, pairVars >>

\* the export callback of session s: n is None when the callback fires for a
\* layout whose button was never clicked, and a positive count afterwards
export_data(s, n) ==
    /\ map[s] # NoMap
    /\ n = "None" => n_clicks[s] = "None"
    /\ n_clicks' = [n_clicks EXCEPT ![s] = n]
    /\ last' = [op |-> "export_data", session |-> s, n_clicks |-> n,
                est_calls |-> 0,
                ret |-> IF n = "None" \/ sensor_data.empty
                        THEN NoDownload
                        ELSE sensor_data]
    /\ UNCHANGED << db, sensor_data, map, click_feature, duration, hostSeen,
                    estVars, pairVars >>

\* sensors report, appear or disappear: the map query returns other rows
db_change ==
    /\ \E rows \in MapData \ { db } : db' = rows
    /\ last' = [NoCall EXCEPT !.op = "db_change"]
    /\ UNCHANGED << sensor_data, map, click_feature, duration, n_clicks,
                    hostSeen, estVars, pairVars >>

Init ==
    /\ latitudes = None /\ longitudes = None
    /\ EstIdle
    /\ PairIdle
    /\ \E rows \in MapData : AppStart(rows)

Next ==
    \/ \E s \in Sessions : serve_layout(s)
    \/ \E s \in Sessions : update_map(s)
    \/ \E s \in Sessions, dur \in Durations, feature \in Features :
          update_graphs(s, dur, feature)
    \/ \E s \in Sessions, n \in { "None", "positive" } : export_data(s, n)
    \/ db_change

Spec == Init /\ [][Next]_vars

(***************************************************************************)
(* Properties.                                                             *)
(***************************************************************************)

\* float equality: false when either side is NaN
FEq(x, y) == ~IsNaN(x) /\ ~IsNaN(y) /\ REq(x, y)

Called == pc # "call"

Degenerate ==
    \/ latitudes = None
    \/ longitudes = None
    \/ Len(latitudes.vals) # Len(longitudes.vals)

NonEmptyEqual == ~Degenerate /\ Len(latitudes.vals) >= 1

\* the components of a result, whichever shape it has
ZoomOf(r) == r[1]
CenterOf(r) == IF Len(r) = 2 THEN r[2] ELSE << r[2], r[3] >>

AllSame(v) == \A i \in 1..Len(v) : v[i] = v[1]

\* some latitude difference times some longitude difference exceeds 1, which
\* is to say that the bounding box has an area above 1
AreaAboveOne ==
    \E i, j \in 1..Len(latitudes.vals), k, l \in 1..Len(longitudes.vals) :
        LET h == RSub(latitudes.vals[i], latitudes.vals[j])
            w == RSub(longitudes.vals[k], longitudes.vals[l])
        IN  ~h.neg /\ ~w.neg /\ RLt(Int2Rat(1), RMul(h, w))

\* C1: when latitudes is None, or longitudes is None, or their lengths
\* differ, the call returns zoom 0 and center (0, 0), whatever the values.
C1_DegenerateDefault ==
    Called /\ Degenerate =>
        /\ FEq(ZoomOf(result), Int2Rat(0))
        /\ FEq(CenterOf(result)[1], Int2Rat(0))
        /\ FEq(CenterOf(result)[2], Int2Rat(0))

C1_Witness ==
    /\ pc = "returned"
    /\ latitudes # None /\ longitudes # None
    /\ Len(latitudes.vals) = 3 /\ Len(longitudes.vals) = 2
    /\ ~AllSame(latitudes.vals)

\* C2: the result has the same three components on every path, and
\* destructuring it into three names never raises.
C2_SameShapeNoError ==
    /\ Called => Len(result) = 3
    /\ pc # "ValueError"

\* C3: for two empty Series the call returns three defined numbers, none of
\* them NaN.
C3_EmptyInputValid ==
    Called /\ ~Degenerate /\ Len(latitudes.vals) = 0 =>
        /\ Len(result) = 3
        /\ ~IsNaN(result[1]) /\ ~IsNaN(result[2]) /\ ~IsNaN(result[3])

C6_LargeAreaClampsTo4 ==
    Called /\ NonEmptyEqual /\ AreaAboveOne => FEq(result[1], Int2Rat(4))

\* latitudes [0, 9], longitudes [0, 10]: area 90, zoom 4, center (4.5, 5)
C6_Witness ==
    /\ pc = "returned"
    /\ latitudes = Series(<< Int2Rat(0), Int2Rat(9) >>)
    /\ longitudes = Series(<< Int2Rat(0), Int2Rat(10) >>)
    /\ AreaAboveOne
    /\ FEq(result[1], Int2Rat(4))
    /\ FEq(result[2], Frac(9, 2)) /\ FEq(result[3], Int2Rat(5))

\* C7: for a non-empty input the result is (zoom, mean of the latitudes, mean
\* of the longitudes): n times each center coordinate is the sum of the n
\* values.
C7_CenterIsMean ==
    Called /\ NonEmptyEqual =>
        LET n == Len(latitudes.vals)
        IN  /\ Len(result) = 3
            /\ FEq(RMul(Int2Rat(n), result[2]), SumOf(latitudes.vals, n))
            /\ FEq(RMul(Int2Rat(n), result[3]), SumOf(longitudes.vals, n))

\* latitudes [0, 0, 9]: center latitude 3, not the midpoint 4.5
C7_Witness ==
    /\ pc = "returned"
    /\ latitudes = Series(<< Int2Rat(0), Int2Rat(0), Int2Rat(9) >>)
    /\ Len(longitudes.vals) = 3 /\ ~AllSame(longitudes.vals)
    /\ FEq(result[2], Int2Rat(3))
    /\ ~FEq(result[2], Frac(9, 2))

\* the bounding box of the first input lies within that of the second
BoxWithin ==
    /\ RLe(SeriesMin(latitudesB), SeriesMin(latitudes))
    /\ RLe(SeriesMax(latitudes), SeriesMax(latitudesB))
    /\ RLe(SeriesMin(longitudesB), SeriesMin(longitudes))
    /\ RLe(SeriesMax(longitudes), SeriesMax(longitudesB))

AreaA == area(b_box(longitudes, latitudes))
AreaB == area(b_box(longitudesB, latitudesB))

\* C4: of two non-empty inputs, the one whose bounding box lies within the
\* other's gets a zoom at least as large; and the zoom never increases with
\* the area.
C4_ZoomMonotone ==
    pc = "returnedB" =>
        /\ BoxWithin => RLe(resultB[1], result[1])
        /\ RLe(AreaA, AreaB) => RLe(resultB[1], result[1])

\* across the anchors at area 1: a box of area just below 1 within a box of
\* area exactly 1
C4_Witness ==
    /\ pc = "returnedB"
    /\ BoxWithin
    /\ REq(AreaB, Int2Rat(1))
    /\ RLt(AreaA, Int2Rat(1)) /\ RLt(PyPow(2, -10), AreaA)
    /\ RLt(resultB[1], result[1])

Callbacks == { "update_map", "update_graphs", "export_data" }

\* C8: an export by a session that has a sensor selected downloads the data
\* of that sensor, for the duration the session has selected.
C8_ExportIsOwnSelection ==
    /\ last.op = "export_data"
    /\ last.ret # NoDownload
    /\ click_feature[last.session] \in Hosts
    => /\ last.ret.host = click_feature[last.session]
       /\ last.ret.duration = duration[last.session]

\* C9: serve_layout calls the estimator once and sets the map's zoom and
\* center from it; the callbacks do not call it and leave every map's zoom
\* and center as they are.
C9_ViewportOncePerLoad ==
    /\ [](last.op = "serve_layout" =>
            last.est_calls = 1 /\ map[last.session] = ViewOf(db))
    /\ [](last.op \in Callbacks => last.est_calls = 0)
    /\ [][last'.op \in Callbacks => map' = map]_vars

\* a refresh after the map data changed: the map keeps the view of its load
C9_Witness ==
    /\ last.op = "update_map"
    /\ map[last.session] # ViewOf(db)

\* C10: until update_graphs receives a click_feature with a 'host' property,
\* sensor_data is the initial empty frame and no export downloads anything;
\* an export with n_clicks None downloads nothing; export_data leaves
\* sensor_data as it is.
C10_NoHostNoDownload ==
    /\ [](~hostSeen =>
            /\ sensor_data = InitialFrame
            /\ last.op = "export_data" => last.ret = NoDownload)
    /\ [](last.op = "export_data" /\ last.n_clicks = "None" =>
            last.ret = NoDownload)
    /\ [][last'.op = "export_data" => sensor_data' = sensor_data]_vars

\* an export click after clicks on cluster markers only
C10_Witness ==
    /\ ~hostSeen
    /\ last.op = "export_data" /\ last.n_clicks = "positive"
    /\ click_feature[last.session] = "cluster"
    /\ duration[last.session] = "7d"

====
